---- MODULE Spec2Model ----
(***************************************************************************)
(* A model of lyricfinder.py: path inference, tag/path metadata merge,     *)
(* LRCLIB candidate selection, lyrics payload selection, .lrc rendering    *)
(* and the process_library loop.                                           *)
(*                                                                         *)
(* Python str values are TLA+ strings (TLC evaluates Len, Head, Tail,      *)
(* SubSeq and \o on them).  An Optional[str] is None (the empty tuple) or  *)
(* Some(s) (a one-element tuple), so that None differs from every string,  *)
(* the empty string included.                                              *)
(***************************************************************************)
EXTENDS Naturals, Sequences, FiniteSets, TLC

VARIABLES
    call,       \* the pure helper being invoked and its arguments
    ret,        \* its return value, Pending until it has returned
    overwrite,  \* process_library's overwrite flag
    lrc,        \* the file system: .lrc path -> Some(content), or None
    run,        \* how many times main() has been started
    pc,         \* process_library: "scan" in the loop, "done", "crashed"
    idx,        \* position of the rglob iterator (index of the next entry)
    visited,    \* eligible audio files this run has reached
    req,        \* the latest lookup request of this run, or NoRequest
    unpaced,    \* a request was issued and time.sleep has not run since
    failures    \* the kinds of failure this run has met so far

vars == <<call, ret, overwrite, lrc, run, pc, idx, visited, req, unpaced, failures>>

libvars == <<overwrite, lrc, run, pc, idx, visited, req, unpaced, failures>>

-----------------------------------------------------------------------------
(* Optional values and Python truthiness *)

None == <<>>

Some(s) == <<s>>

Value(o) == o[1]

\* bool(o) for o an Optional[str]: None and "" are falsy
Truthy(o) == o # None /\ Value(o) # ""

\* `x or ""`
OrEmpty(o) == IF Truthy(o) THEN Value(o) ELSE ""

\* `x or None`
OrNone(o) == IF Truthy(o) THEN o ELSE None

-----------------------------------------------------------------------------
(* str methods *)

\* str.isspace() of one character (ASCII whitespace)
Whitespace == {" ", "\t", "\n", "\r", "\f"}

Digits == {"0", "1", "2", "3", "4", "5", "6", "7", "8", "9"}

UpperCase == "ABCDEFGHIJKLMNOPQRSTUVWXYZ"

LowerCase == "abcdefghijklmnopqrstuvwxyz"

CharAt(s, i) == SubSeq(s, i, i)

From(s, i) == SubSeq(s, i, Len(s))

LowerChar(c) ==
    IF \E i \in 1..Len(UpperCase) : CharAt(UpperCase, i) = c
    THEN CharAt(LowerCase, CHOOSE i \in 1..Len(UpperCase) : CharAt(UpperCase, i) = c)
    ELSE c

RECURSIVE Lower(_)
Lower(s) == IF s = "" THEN "" ELSE LowerChar(Head(s)) \o Lower(Tail(s))

RECURSIVE LStrip(_)
LStrip(s) == IF s # "" /\ Head(s) \in Whitespace THEN LStrip(Tail(s)) ELSE s

RECURSIVE RStrip(_)
RStrip(s) ==
    IF s # "" /\ CharAt(s, Len(s)) \in Whitespace
    THEN RStrip(SubSeq(s, 1, Len(s) - 1))
    ELSE s

Strip(s) == LStrip(RStrip(s))

\* str.replace for a one-character pattern
RECURSIVE Replace(_, _, _)
Replace(s, old, new) ==
    IF s = "" THEN ""
    ELSE (IF Head(s) = old THEN new ELSE Head(s)) \o Replace(Tail(s), old, new)

StartsWith(s, p) == Len(s) >= Len(p) /\ SubSeq(s, 1, Len(p)) = p

\* str.find, 1-based; 0 when sub does not occur
Find(s, sub) ==
    LET hits == {i \in 1..Len(s) : StartsWith(From(s, i), sub)}
    IN IF hits = {} THEN 0 ELSE CHOOSE i \in hits : \A j \in hits : i <= j

\* re.sub(r"\s+", " ", s)
RECURSIVE CollapseWs(_)
CollapseWs(s) ==
    IF s = "" THEN ""
    ELSE IF Head(s) \in Whitespace
         THEN " " \o CollapseWs(LStrip(s))
         ELSE Head(s) \o CollapseWs(Tail(s))

normalize(o) == Lower(Strip(CollapseWs(OrEmpty(o))))

-----------------------------------------------------------------------------
(* pathlib *)

\* PurePath.suffix: from the last dot of the name, unless that dot is the
\* first or the last character
DotAt(name) ==
    LET dots == {i \in 1..Len(name) : CharAt(name, i) = "."}
        last == IF dots = {} THEN 0 ELSE CHOOSE i \in dots : \A j \in dots : j <= i
    IN IF last > 1 /\ last < Len(name) THEN last ELSE 0

Suffix(name) == IF DotAt(name) = 0 THEN "" ELSE From(name, DotAt(name))

Stem(name) == IF DotAt(name) = 0 THEN name ELSE SubSeq(name, 1, DotAt(name) - 1)

IsPrefix(p, s) == Len(p) <= Len(s) /\ SubSeq(s, 1, Len(p)) = p

\* path.relative_to(library_root).parts, and path.parts on ValueError
RelParts(path, library_root) ==
    IF IsPrefix(library_root, path)
    THEN SubSeq(path, Len(library_root) + 1, Len(path))
    ELSE path

-----------------------------------------------------------------------------
(* infer_from_path *)

\* the length of the longest prefix of s made of characters of class
RECURSIVE Span(_, _)
Span(s, class) == IF s # "" /\ Head(s) \in class THEN 1 + Span(Tail(s), class) ELSE 0

\* `$`: at the end of the string or just before a newline that ends it
AtDollar(s) == s = "" \/ s = "\n"

\* re.match(r"^cd\s*\d+$", seg, re.IGNORECASE)
IsDiscDir(seg) ==
    /\ Len(seg) >= 2
    /\ Lower(SubSeq(seg, 1, 2)) = "cd"
    /\ LET a == From(seg, 3)
           b == From(a, Span(a, Whitespace) + 1)
           n == Span(b, Digits)
       IN n >= 1 /\ AtDollar(From(b, n + 1))

\* (.+)$ at the start of s: the text `.+` captures, None when it cannot match
DotPlusEnd(s) ==
    LET n == Span(s, {CharAt(s, i) : i \in 1..Len(s)} \ {"\n"})
    IN IF n >= 1 /\ AtDollar(From(s, n + 1)) THEN Some(SubSeq(s, 1, n)) ELSE None

\* re.match(r"^\s*\d+\s*[-_.]\s*(.+)$", s): group 1, None when there is no match
TrackNumberMatch(s) ==
    LET a == From(s, Span(s, Whitespace) + 1)
        n == Span(a, Digits)
        b == From(a, n + 1)
        c == From(b, Span(b, Whitespace) + 1)
        r == From(c, 2)
        \* the last \s* is greedy and gives characters back until (.+)$ matches
        ks == {k \in 0..Span(r, Whitespace) : DotPlusEnd(From(r, k + 1)) # None}
    IN IF n >= 1 /\ c # "" /\ Head(c) \in {"-", "_", "."} /\ ks # {}
       THEN DotPlusEnd(From(r, (CHOOSE k \in ks : \A j \in ks : j <= k) + 1))
       ELSE None

\* line 72: `" - " in stem_clean and not artist`
SplitsArtist(stem_clean, artist) == Find(stem_clean, " - ") > 0 /\ ~Truthy(artist)

infer_from_path(path, library_root) ==
    LET rel_parts == RelParts(path, library_root)
        n == Len(rel_parts)
        artist0 == IF n >= 1 THEN Some(rel_parts[1]) ELSE None
        album0 == IF n >= 2
                  THEN IF n >= 3 /\ IsDiscDir(rel_parts[3])
                       THEN Some(rel_parts[2] \o " " \o rel_parts[3])
                       ELSE Some(rel_parts[2])
                  ELSE None
        stem == IF path = <<>> THEN "" ELSE Stem(path[Len(path)])
        stem_clean == Replace(stem, "_", " ")
        m == TrackNumberMatch(stem_clean)
        title0 == IF m # None THEN Strip(Value(m)) ELSE Strip(stem_clean)
        split == SplitsArtist(stem_clean, artist0)
        at == Find(stem_clean, " - ")
        maybe_artist == SubSeq(stem_clean, 1, at - 1)
        maybe_title == From(stem_clean, at + 3)
        artist == IF split THEN Some(Strip(maybe_artist)) ELSE artist0
        title == IF split /\ Strip(maybe_title) # "" THEN Strip(maybe_title) ELSE title0
    IN [artist |-> OrNone(artist), title |-> OrNone(Some(title)), album |-> OrNone(album0)]

-----------------------------------------------------------------------------
(* Values that stand for "nothing yet" in the state *)

Pending == [pending |-> TRUE]

NoCall == [fn |-> "none"]

NoRequest == [issued |-> FALSE]

\* the pipeline's variables while only a helper is exercised
LibIdle ==
    /\ overwrite = FALSE
    /\ lrc = <<>>
    /\ run = 0
    /\ pc = "idle"
    /\ idx = 0
    /\ visited = {}
    /\ req = NoRequest
    /\ unpaced = FALSE
    /\ failures = {}

-----------------------------------------------------------------------------
(* infer_from_path over a bounded set of library paths *)

MaxDepth == 3

LibraryRoot == <<"/", "music">>

DirNames == {"Artist Name", "Album", "CD2", "cd 1", "Extras"}

FileNames ==
    { "01 - Song Name.mp3", "01.Song Name.flac", "01_Song Name.ogg",
      "Artist Name - Song Title.mp3", "Song_Name.wav", "7.mp3", "02 - .m4a",
      "notes" }

RECURSIVE SeqsUpTo(_, _)
SeqsUpTo(S, n) ==
    IF n = 0 THEN {<<>>}
    ELSE LET shorter == SeqsUpTo(S, n - 1)
         IN shorter \cup {Append(q, x) : q \in shorter, x \in S}

\* files at depth 0..MaxDepth under the root, and the same outside of it
LibraryPaths ==
    {base \o dirs \o <<f>> :
        base \in {LibraryRoot, <<"/", "tmp">>},
        dirs \in SeqsUpTo(DirNames, MaxDepth),
        f \in FileNames}

InitInfer ==
    /\ call \in {[fn |-> "infer_from_path", path |-> p, library_root |-> LibraryRoot] :
                    p \in LibraryPaths}
    /\ ret = Pending
    /\ LibIdle

CallInfer ==
    /\ call.fn = "infer_from_path"
    /\ ret = Pending
    /\ ret' = infer_from_path(call.path, call.library_root)
    /\ UNCHANGED <<call, libvars>>

SpecInfer == InitInfer /\ [][CallInfer]_vars

-----------------------------------------------------------------------------
(* get_metadata *)

\* What MutagenFile(path, easy=True) can do: raise, return None, or return
\* an object with .tags (None or a mapping) and .info.
\* A tag value is [t |-> "list", items |-> <<str, ...>>], [t |-> "str", s |-> str]
\* or [t |-> "other"]; tags.get of a missing key is [t |-> "missing"].

TagKeys == {"title", "artist", "album"}

\* tags.get(key) on `audio.tags or {}`
TagGet(tags, key) == IF tags = None THEN [t |-> "missing"] ELSE Value(tags)[key]

\* first(key), lines 96-102
first(tags, key) ==
    LET v == TagGet(tags, key)
    IN IF v.t = "list" /\ v.items # <<>> THEN Some(v.items[1])
       ELSE IF v.t = "str" THEN Some(v.s)
       ELSE None

\* int(round(x)) for x = tenths / 10: Python rounds halves to the even integer
RoundTenths(tenths) ==
    LET q == tenths \div 10
        r == tenths % 10
    IN IF r < 5 THEN q
       ELSE IF r > 5 THEN q + 1
       ELSE IF q % 2 = 0 THEN q ELSE q + 1

\* lines 108-112; info is None, [has_length |-> FALSE] or [has_length |-> TRUE, tenths |-> n]
DurationOf(info) ==
    IF info # None /\ Value(info).has_length
    THEN Some(RoundTenths(Value(info).tenths))
    ELSE None

FillGapIfNone(tag, inferred) == IF tag = None THEN inferred ELSE tag

\* `if not artist: artist = inf_artist`, lines 117-122
FillGap(tag, inferred) == IF ~Truthy(tag) THEN inferred ELSE tag

\* lines 88-91: an exception from MutagenFile leaves audio = None
ReadAudio(opened) == IF opened.kind = "audio" THEN Some(opened) ELSE None

get_metadata(opened, path, library_root) ==
    LET audio == ReadAudio(opened)
        tags == IF audio = None THEN None ELSE Value(audio).tags
        tag(key) == IF audio = None THEN None ELSE first(tags, key)
        duration == IF audio = None THEN None ELSE DurationOf(Value(audio).info)
        inf == infer_from_path(path, library_root)
    IN [artist |-> FillGap(tag("artist"), inf.artist),
        title |-> FillGap(tag("title"), inf.title),
        album |-> FillGap(tag("album"), inf.album),
        duration |-> duration]

TagValues ==
    { [t |-> "missing"], [t |-> "other"],
      [t |-> "list", items |-> <<>>], [t |-> "list", items |-> <<"">>],
      [t |-> "list", items |-> <<"Tag One", "Tag Two">>],
      [t |-> "str", s |-> ""], [t |-> "str", s |-> "Tag Str"] }

AudioInfos ==
    { None, Some([has_length |-> FALSE]),
      Some([has_length |-> TRUE, tenths |-> 25]), Some([has_length |-> TRUE, tenths |-> 1816]) }

OpenedFiles ==
    { [kind |-> "raise"], [kind |-> "none"], [kind |-> "audio", tags |-> None, info |-> None] }
    \cup { [kind |-> "audio", tags |-> Some(tg), info |-> i] :
              tg \in [TagKeys -> TagValues], i \in AudioInfos }

MetadataPaths ==
    { LibraryRoot \o <<"Artist Name", "Album", "CD2", "01 - Song Name.mp3">>,
      LibraryRoot \o <<"Artist Name", "02 - .m4a">>,
      LibraryRoot \o <<"7.mp3">> }

InitMetadata ==
    /\ call \in {[fn |-> "get_metadata", opened |-> o, path |-> p, library_root |-> LibraryRoot] :
                    o \in OpenedFiles, p \in MetadataPaths}
    /\ ret = Pending
    /\ LibIdle

CallMetadata ==
    /\ call.fn = "get_metadata"
    /\ ret = Pending
    /\ ret' = get_metadata(call.opened, call.path, call.library_root)
    /\ UNCHANGED <<call, libvars>>

SpecMetadata == InitMetadata /\ [][CallMetadata]_vars

-----------------------------------------------------------------------------
(* choose_best_result *)

\* A result record of /api/search.  A key that is missing or null is None;
\* r.get(key) is the field.

\* lines 142-151: the score of candidate r against the normalized query
Score(r, norm_title, norm_artist) ==
    LET r_title == normalize(Some(OrEmpty(IF Truthy(r.trackName) THEN r.trackName ELSE r.name)))
        r_artist == normalize(Some(OrEmpty(r.artistName)))
        title_match == norm_title # "" /\ r_title = norm_title
        artist_match == norm_artist # "" /\ r_artist = norm_artist
    IN IF title_match /\ artist_match THEN 2
       ELSE IF title_match \/ artist_match THEN 1
       ELSE 0

BeatsOrTies(score, best) == best = None \/ score >= Value(best).score

\* line 153: `best is None or score > best[0]`
Beats(score, best) == best = None \/ score > Value(best).score

\* lines 140-154: the loop from result i on, best being None or Some([score, at])
RECURSIVE ScanResults(_, _, _, _, _)
ScanResults(results, i, best, norm_title, norm_artist) ==
    IF i > Len(results) THEN best
    ELSE LET score == Score(results[i], norm_title, norm_artist)
         IN ScanResults(results, i + 1,
                        IF Beats(score, best) THEN Some([score |-> score, at |-> i]) ELSE best,
                        norm_title, norm_artist)

\* the position in results of the record choose_best_result returns, 0 for None
choose_best_result(results, title, artist) ==
    IF results = <<>> THEN 0
    ELSE IF ~Truthy(title) /\ ~Truthy(artist) THEN 1
    ELSE LET best == ScanResults(results, 1, None, normalize(title), normalize(artist))
         IN IF best # None THEN Value(best).at ELSE 1

MaxResults == 3

NoLyricsFields == [instrumental |-> None, syncedLyrics |-> None, plainLyrics |-> None]

Named(t, n, a) == [trackName |-> t, name |-> n, artistName |-> a] @@ NoLyricsFields

ChooseCandidates ==
    { Named(Some(" Song  title"), None, Some("the band ")),
      Named(None, Some("SONG TITLE"), None),
      Named(Some("Other"), Some("SONG TITLE"), Some("the band ")),
      Named(Some(""), Some("Song\tTitle"), Some("Nobody")),
      Named(Some("Other"), None, None),
      Named(None, None, None) }

ChooseTitles == {None, Some(""), Some(" \t"), Some("Song Title"), Some("other ")}

ChooseArtists == {None, Some("The  Band")}

InitChoose ==
    /\ call \in {[fn |-> "choose_best_result", results |-> rs, title |-> t, artist |-> a] :
                    rs \in SeqsUpTo(ChooseCandidates, MaxResults),
                    t \in ChooseTitles, a \in ChooseArtists}
    /\ ret = Pending
    /\ LibIdle

CallChoose ==
    /\ call.fn = "choose_best_result"
    /\ ret = Pending
    /\ ret' = [at |-> choose_best_result(call.results, call.title, call.artist)]
    /\ UNCHANGED <<call, libvars>>

SpecChoose == InitChoose /\ [][CallChoose]_vars

-----------------------------------------------------------------------------
(* fetch_lyrics_from_lrclib *)

\* What session.get(...), raise_for_status() and resp.json() can do together:
\* [kind |-> "raise"] (connection error, timeout, HTTP error status, a body
\* that is not JSON) or [kind |-> "json", body |-> b], b being
\* [t |-> "list", items |-> <<record, ...>>] or [t |-> "other"] (any other JSON value).

QueryTitleFirst(artist, title) ==
    IF Truthy(artist) /\ Truthy(title) THEN Value(title) \o " " \o Value(artist)
    ELSE IF Truthy(title) THEN Value(title)
    ELSE Value(artist)

\* lines 176-185: params["q"]
Query(artist, title) ==
    IF Truthy(artist) /\ Truthy(title) THEN Value(artist) \o " " \o Value(title)
    ELSE IF Truthy(title) THEN Value(title)
    ELSE Value(artist)

ParseResponseUncaught(http) ==
    IF http.kind = "raise" THEN [raised |-> TRUE, results |-> None]
    ELSE IF http.body.t # "list" \/ http.body.items = <<>> THEN [raised |-> FALSE, results |-> None]
    ELSE [raised |-> FALSE, results |-> Some(http.body.items)]

\* lines 189-198: the results to choose from, None when the function returns
\* (None, False) there; raised says whether an exception leaves the function
ParseResponse(http) ==
    IF http.kind = "raise" THEN [raised |-> FALSE, results |-> None]
    ELSE IF http.body.t # "list" \/ http.body.items = <<>> THEN [raised |-> FALSE, results |-> None]
    ELSE [raised |-> FALSE, results |-> Some(http.body.items)]

NoLyrics == [lyrics |-> None, is_synced |-> FALSE]

PayloadPlainFirst(best) ==
    IF best.instrumental = Some(TRUE) THEN NoLyrics
    ELSE IF Strip(OrEmpty(best.plainLyrics)) # ""
         THEN [lyrics |-> Some(OrEmpty(best.plainLyrics)), is_synced |-> FALSE]
    ELSE IF Strip(OrEmpty(best.syncedLyrics)) # ""
         THEN [lyrics |-> Some(OrEmpty(best.syncedLyrics)), is_synced |-> TRUE]
    ELSE NoLyrics

\* lines 204-216
Payload(best) ==
    LET synced == OrEmpty(best.syncedLyrics)
        plain == OrEmpty(best.plainLyrics)
    IN IF best.instrumental = Some(TRUE) THEN NoLyrics
       ELSE IF Strip(synced) # "" THEN [lyrics |-> Some(synced), is_synced |-> TRUE]
       ELSE IF Strip(plain) # "" THEN [lyrics |-> Some(plain), is_synced |-> FALSE]
       ELSE NoLyrics

\* album and duration are accepted and not used (lines 159-216).
\* Line 201, `if not best`, holds only of an empty dict, for which lines
\* 204-216 return (None, False) as well.
fetch_lyrics_from_lrclib(artist, title, album, duration, http) ==
    IF ~Truthy(title) /\ ~Truthy(artist)
    THEN [request |-> NoRequest, raised |-> FALSE] @@ NoLyrics
    ELSE LET request == [issued |-> TRUE, q |-> Query(artist, title)]
             parsed == ParseResponse(http)
         IN IF parsed.raised \/ parsed.results = None
            THEN [request |-> request, raised |-> parsed.raised] @@ NoLyrics
            ELSE LET results == Value(parsed.results)
                     at == choose_best_result(results, title, artist)
                 IN [request |-> request, raised |-> FALSE] @@ Payload(results[at])

MaxBody == 2

SyncedText == "[00:01.00] la\n"

PlainText == "la la\n\noh"

Lyric(t, i, sy, pl) ==
    [trackName |-> t, name |-> None, artistName |-> None,
     instrumental |-> i, syncedLyrics |-> sy, plainLyrics |-> pl]

FetchCandidates ==
    { Lyric(Some("Song Title"), i, sy, pl) :
        i \in {Some(FALSE), Some(TRUE)},
        sy \in {None, Some(" \n"), Some(SyncedText)},
        pl \in {None, Some("\t"), Some(PlainText)} }
    \cup { Lyric(Some("Other"), None, Some(SyncedText), Some(PlainText)),
           Lyric(None, None, Some(""), Some("")) }

HttpOutcomes(candidates, n) ==
    { [kind |-> "raise"], [kind |-> "json", body |-> [t |-> "other"]] }
    \cup { [kind |-> "json", body |-> [t |-> "list", items |-> rs]] : rs \in SeqsUpTo(candidates, n) }

InitFetch ==
    /\ call \in {[fn |-> "fetch_lyrics_from_lrclib", artist |-> a, title |-> t,
                   album |-> None, duration |-> None, http |-> h] :
                    a \in {None, Some(""), Some("The Band")},
                    t \in {None, Some("Song Title")},
                    h \in HttpOutcomes(FetchCandidates, MaxBody)}
    /\ ret = Pending
    /\ LibIdle

CallFetch ==
    /\ call.fn = "fetch_lyrics_from_lrclib"
    /\ ret = Pending
    /\ ret' = fetch_lyrics_from_lrclib(call.artist, call.title, call.album, call.duration, call.http)
    /\ UNCHANGED <<call, libvars>>

SpecFetch == InitFetch /\ [][CallFetch]_vars

-----------------------------------------------------------------------------
(* make_unsynced_lrc and write_lrc_for_track *)

\* the line boundaries of str.splitlines among the characters modelled
LineBreaks == {"\n", "\r", "\f"}

\* str.splitlines(): "\r\n" is one boundary, and no empty line follows a
\* boundary that ends the text
RECURSIVE SplitLines(_)
SplitLines(s) ==
    LET n == Span(s, {CharAt(s, i) : i \in 1..Len(s)} \ LineBreaks)
        two == n + 1 < Len(s) /\ CharAt(s, n + 1) = "\r" /\ CharAt(s, n + 2) = "\n"
    IN IF s = "" THEN <<>>
       ELSE IF n = Len(s) THEN <<s>>
       ELSE <<SubSeq(s, 1, n)>> \o SplitLines(From(s, IF two THEN n + 3 ELSE n + 2))

\* sep.join(lines)
RECURSIVE Join(_, _)
Join(lines, sep) ==
    IF lines = <<>> THEN ""
    ELSE IF Len(lines) = 1 THEN lines[1]
    ELSE lines[1] \o sep \o Join(Tail(lines), sep)

Marker == "[00:00.00] "

StampEveryLine(line) == Marker \o line

\* lines 227-230
StampLine(line) == IF Strip(line) # "" THEN Marker \o line ELSE ""

make_unsynced_lrc(plain_lyrics) ==
    LET lines == SplitLines(plain_lyrics)
        out_lines == [i \in 1..Len(lines) |-> StampLine(lines[i])]
    IN RStrip(Join(out_lines, "\n")) \o "\n"

\* lines 250-253
Content(lyrics, is_synced) ==
    IF is_synced THEN RStrip(lyrics) \o "\n" ELSE make_unsynced_lrc(lyrics)

\* track_path.with_suffix(".lrc")
LrcPath(track_path) ==
    LET n == Len(track_path)
    IN [track_path EXCEPT ![n] = Stem(track_path[n]) \o ".lrc"]

\* lines 246-248
KeepsExisting(fs, lrc_path, ow) == fs[lrc_path] # None /\ ~ow

\* What lrc_path.write_text can do: "ok"; "denied" (the file cannot be
\* opened, nothing changes); "truncated" (opened for writing, then the
\* write fails).  Returns the file system afterwards; lines 255-259 catch
\* the exception.  lrc_path is line 244's LrcPath(track_path) and content
\* is lines 250-253's Content(lyrics, is_synced).
write_lrc_for_track(fs, lrc_path, content, ow, disk) ==
    IF KeepsExisting(fs, lrc_path, ow) THEN fs
    ELSE IF disk = "ok" THEN [fs EXCEPT ![lrc_path] = Some(content)]
    ELSE IF disk = "truncated" THEN [fs EXCEPT ![lrc_path] = Some("")]
    ELSE fs

MaxText == 4

TextAlphabet == {"a", " ", "\n", "\r"}

RECURSIVE Texts(_)
Texts(n) ==
    IF n = 0 THEN {""}
    ELSE LET shorter == Texts(n - 1)
         IN shorter \cup {t \o c : t \in shorter, c \in TextAlphabet}

InitLrc ==
    /\ call \in {[fn |-> "make_unsynced_lrc", plain_lyrics |-> t] :
                    t \in Texts(MaxText) \cup {"Line one\n\nLine two", PlainText}}
    /\ ret = Pending
    /\ LibIdle

CallMakeLrc ==
    /\ call.fn = "make_unsynced_lrc"
    /\ ret = Pending
    /\ ret' = [content |-> make_unsynced_lrc(call.plain_lyrics)]
    /\ UNCHANGED <<call, libvars>>

SpecLrc == InitLrc /\ [][CallMakeLrc]_vars

-----------------------------------------------------------------------------
(* process_library *)

AUDIO_EXTS == {".flac", ".mp3", ".m4a", ".aac", ".ogg", ".wav"}

MaxRuns == 2

\* what root.rglob("*") yields, in order
Library ==
    << [path |-> LibraryRoot \o <<"Artist Name">>, is_file |-> FALSE],
       [path |-> LibraryRoot \o <<"Artist Name", "Live.mp3">>, is_file |-> FALSE],
       [path |-> LibraryRoot \o <<"Artist Name", "Live.mp3", "01 - Song Name.mp3">>, is_file |-> TRUE],
       [path |-> LibraryRoot \o <<"Artist Name", "Live.mp3", "01 - Song Name.FLAC">>, is_file |-> TRUE],
       [path |-> LibraryRoot \o <<"Artist Name", "Live.mp3", "._01 - Song Name.mp3">>, is_file |-> TRUE],
       [path |-> LibraryRoot \o <<"Artist Name", "Live.mp3", "cover.jpg">>, is_file |-> TRUE],
       [path |-> LibraryRoot \o <<"Loose Track.ogg">>, is_file |-> TRUE] >>

FileName(path) == path[Len(path)]

\* lines 269-277: the entries the loop does not `continue` past
IsEligible(entry) ==
    /\ entry.is_file
    /\ ~StartsWith(FileName(entry.path), "._")
    /\ Lower(Suffix(FileName(entry.path))) \in AUDIO_EXTS

Eligible == {i \in 1..Len(Library) : IsEligible(Library[i])}

LrcPaths == {LrcPath(Library[i].path) : i \in Eligible}

NeverSkips(fs, lrc_path, ow) == FALSE

\* lines 279-282
SkipsExisting(fs, lrc_path, ow) == fs[lrc_path] # None /\ ~ow

\* what the tag reader, the lookup service and the disk may do for a track
LibOpened ==
    { [kind |-> "raise"],
      [kind |-> "audio", tags |-> None, info |-> None],
      [kind |-> "audio",
       tags |-> Some([k \in TagKeys |-> IF k = "title"
                                        THEN [t |-> "list", items |-> <<"Song Title">>]
                                        ELSE [t |-> "missing"]]),
       info |-> Some([has_length |-> TRUE, tenths |-> 1816])] }

LibCandidates ==
    { Lyric(Some("Song Title"), Some(TRUE), Some(SyncedText), None),
      Lyric(Some("Song Title"), Some(FALSE), Some(SyncedText), Some(PlainText)),
      Lyric(Some("Song Title"), None, None, Some(PlainText)),
      Lyric(Some("Song Title"), Some(FALSE), None, Some(" ")) }

MaxLibBody == 1

LibHttp == HttpOutcomes(LibCandidates, MaxLibBody)

DiskOutcomes == {"ok", "denied", "truncated"}

\* the failures of section 7 that one pass of the loop body met
FailuresOf(opened, http, fetched, wrote, disk) ==
    (IF opened.kind = "raise" THEN {"tag"} ELSE {})
    \cup (IF fetched.request.issued /\ (http.kind = "raise" \/ http.body.t # "list")
          THEN {"lookup"} ELSE {})
    \cup (IF fetched.request.issued /\ http.kind = "json" /\ http.body.t = "list"
             /\ ~Truthy(fetched.lyrics)
          THEN {"nomatch"} ELSE {})
    \cup (IF wrote /\ disk # "ok" THEN {"write"} ELSE {})

\* line 284 for every eligible entry and everything its tag read may do
MetaOf ==
    [i \in Eligible |-> [opened \in LibOpened |->
        get_metadata(opened, Library[i].path, LibraryRoot)]]

\* lines 290-297
FetchFor(meta, http) ==
    fetch_lyrics_from_lrclib(meta.artist, meta.title, meta.album, meta.duration, http)

FetchedOf ==
    [i \in Eligible |-> [opened \in LibOpened |-> [http \in LibHttp |->
        FetchFor(MetaOf[i][opened], http)]]]

\* lines 250-253 for the lyrics a lookup returned
ContentFor(fetched) ==
    IF Truthy(fetched.lyrics) THEN Content(Value(fetched.lyrics), fetched.is_synced) ELSE ""

ContentOf ==
    [i \in Eligible |-> [opened \in LibOpened |-> [http \in LibHttp |->
        ContentFor(FetchedOf[i][opened][http])]]]

\* line 279 (and line 244) for every entry
LrcPathOf == [i \in 1..Len(Library) |-> LrcPath(Library[i].path)]

Init ==
    /\ call = NoCall
    /\ ret = Pending
    /\ overwrite \in BOOLEAN
    /\ lrc \in [LrcPaths -> {None, Some("[00:09.00] old\n")}]
    /\ run = 1
    /\ pc = "scan"
    /\ idx = 1
    /\ visited = {}
    /\ req = NoRequest
    /\ unpaced = FALSE
    /\ failures = {}

\* lines 284-306, the tag read having done `opened` and the lookup `http`
LookUpAndWrite(opened, http, fetched, content, lrc_path) ==
    /\ visited' = visited \cup {idx}
    /\ req' = IF fetched.request.issued
              THEN [issued |-> TRUE, q |-> fetched.request.q, entry |-> idx]
              ELSE req
    /\ IF fetched.raised
       THEN /\ pc' = "crashed"
            /\ unpaced' = (fetched.request.issued \/ unpaced)
            /\ UNCHANGED <<idx, lrc, failures>>
       ELSE IF ~Truthy(fetched.lyrics)
       THEN /\ idx' = idx + 1
            /\ unpaced' = (fetched.request.issued \/ unpaced)
            /\ failures' = failures \cup FailuresOf(opened, http, fetched, FALSE, "ok")
            /\ UNCHANGED <<pc, lrc>>
       ELSE \E disk \in DiskOutcomes :
            /\ idx' = idx + 1
            /\ lrc' = write_lrc_for_track(lrc, lrc_path, content, overwrite, disk)
            /\ unpaced' = FALSE
            /\ failures' = failures \cup FailuresOf(opened, http, fetched,
                                ~KeepsExisting(lrc, lrc_path, overwrite), disk)
            /\ UNCHANGED pc

\* one pass of the loop body, lines 268-306
ProcessEntry ==
    /\ pc = "scan"
    /\ idx <= Len(Library)
    /\ IF idx \notin Eligible
       THEN /\ idx' = idx + 1
            /\ UNCHANGED <<pc, lrc, visited, req, unpaced, failures>>
       ELSE IF SkipsExisting(lrc, LrcPathOf[idx], overwrite)
       THEN /\ idx' = idx + 1
            /\ visited' = visited \cup {idx}
            /\ UNCHANGED <<pc, lrc, req, unpaced, failures>>
       ELSE \E opened \in LibOpened, http \in LibHttp :
                LookUpAndWrite(opened, http, FetchedOf[idx][opened][http],
                               ContentOf[idx][opened][http], LrcPathOf[idx])
    /\ UNCHANGED <<call, ret, overwrite, run>>

\* the iterator is exhausted: process_library returns and main logs "Done."
FinishRun ==
    /\ pc = "scan"
    /\ idx > Len(Library)
    /\ pc' = "done"
    /\ UNCHANGED <<call, ret, overwrite, lrc, run, idx, visited, req, unpaced, failures>>

\* main() is started again on the same library with the same flag
StartRun ==
    /\ pc = "done"
    /\ run < MaxRuns
    /\ run' = run + 1
    /\ pc' = "scan"
    /\ idx' = 1
    /\ visited' = {}
    /\ req' = NoRequest
    /\ unpaced' = FALSE
    /\ failures' = {}
    /\ UNCHANGED <<call, ret, overwrite, lrc>>

Next == ProcessEntry \/ FinishRun \/ StartRun

Spec == Init /\ [][Next]_vars

\* one run of process_library, which runs on until it returns or an
\* exception leaves it
RunNext == ProcessEntry \/ FinishRun

FairSpec == Init /\ [][RunNext]_vars /\ WF_vars(RunNext)

-----------------------------------------------------------------------------
(* Properties *)

Returned(fn) == call.fn = fn /\ ret # Pending

\* the text has a character that is not whitespace
HasInk(o) == o # None /\ \E i \in 1..Len(Value(o)) : CharAt(Value(o), i) \notin Whitespace

\* the candidate's title: trackName, else name
TitleOf(r) == IF Truthy(r.trackName) THEN r.trackName ELSE r.name

\* 2 if normalized title and artist both equal the query's, 1 if exactly
\* one does, 0 otherwise; an empty normalized query field equals nothing
MatchCount(r, title, artist) ==
    Cardinality({f \in {"title", "artist"} :
        LET q == IF f = "title" THEN normalize(title) ELSE normalize(artist)
            c == IF f = "title" THEN normalize(TitleOf(r)) ELSE normalize(r.artistName)
        IN q # "" /\ q = c})

MaxMatchCount(results, title, artist) ==
    CHOOSE m \in 0..2 :
        /\ \E i \in 1..Len(results) : MatchCount(results[i], title, artist) = m
        /\ \A i \in 1..Len(results) : MatchCount(results[i], title, artist) <= m

Selected ==
    call.http.body.items[choose_best_result(call.http.body.items, call.title, call.artist)]

GotResults ==
    /\ Returned("fetch_lyrics_from_lrclib")
    /\ ret.request.issued
    /\ call.http.kind = "json"
    /\ call.http.body.t = "list"
    /\ call.http.body.items # <<>>

\* C2: the payload of the selected candidate is none if instrumental is
\* true; otherwise (syncedLyrics, synced) if syncedLyrics has a
\* non-whitespace character; otherwise (plainLyrics, not synced) if
\* plainLyrics has one; otherwise none.
C2_PayloadOfSelected ==
    GotResults =>
        <<ret.lyrics, ret.is_synced>> =
            IF Selected.instrumental = Some(TRUE) THEN <<None, FALSE>>
            ELSE IF HasInk(Selected.syncedLyrics) THEN <<Selected.syncedLyrics, TRUE>>
            ELSE IF HasInk(Selected.plainLyrics) THEN <<Selected.plainLyrics, FALSE>>
            ELSE <<None, FALSE>>

\* both lyrics fields are populated and the synced text was returned
C2_Witness ==
    /\ GotResults
    /\ Selected.instrumental # Some(TRUE)
    /\ HasInk(Selected.syncedLyrics)
    /\ HasInk(Selected.plainLyrics)
    /\ ret.lyrics = Selected.syncedLyrics
    /\ ret.is_synced

\* every line boundary read as "\n"
RECURSIVE UnixNewlines(_)
UnixNewlines(s) ==
    IF s = "" THEN ""
    ELSE IF StartsWith(s, "\r\n") THEN "\n" \o UnixNewlines(From(s, 3))
    ELSE IF Head(s) \in LineBreaks THEN "\n" \o UnixNewlines(Tail(s))
    ELSE Head(s) \o UnixNewlines(Tail(s))

\* the lines of the text: the pieces between its line boundaries, in order
InputLines(s) ==
    LET t == UnixNewlines(s)
        cuts == {0, Len(t) + 1} \cup {i \in 1..Len(t) : CharAt(t, i) = "\n"}
        cut(k) == CHOOSE c \in cuts : Cardinality({d \in cuts : d < c}) = k - 1
    IN [k \in 1..(Cardinality(cuts) - 1) |-> SubSeq(t, cut(k) + 1, cut(k + 1) - 1)]

ExpectedLrc(s) ==
    LET lines == InputLines(s)
        shown == [k \in 1..Len(lines) |->
                    IF HasInk(Some(lines[k])) THEN "[00:00.00] " \o lines[k] ELSE ""]
    IN RStrip(Join(shown, "\n")) \o "\n"

\* C3: make_unsynced_lrc outputs the input lines in order, each non-blank
\* line prefixed by "[00:00.00] " and each blank line as an empty line,
\* joined by newline, trailing whitespace trimmed and one newline appended;
\* "Line one\n\nLine two" renders "[00:00.00] Line one\n\n[00:00.00] Line two\n".
C3_UnsyncedRendering ==
    Returned("make_unsynced_lrc") =>
        /\ ret.content = ExpectedLrc(call.plain_lyrics)
        /\ (call.plain_lyrics = "Line one\n\nLine two"
                => ret.content = "[00:00.00] Line one\n\n[00:00.00] Line two\n")

\* the example of the claim has been rendered
C3_Witness ==
    /\ Returned("make_unsynced_lrc")
    /\ call.plain_lyrics = "Line one\n\nLine two"
    /\ ret.content = "[00:00.00] Line one\n\n[00:00.00] Line two\n"

\* the texts a tag holds: the first item of a non-empty list, or a string
TagTexts(opened, key) ==
    IF opened.kind # "audio" \/ opened.tags = None THEN {}
    ELSE LET v == Value(opened.tags)[key]
         IN IF v.t = "list" THEN {v.items[i] : i \in {1} \cap DOMAIN v.items}
            ELSE IF v.t = "str" THEN {v.s}
            ELSE {}

\* C4: for each of artist, title and album, get_metadata returns the tag
\* value when it is present and non-empty, otherwise the path-inferred
\* value, otherwise nothing; an empty tag counts as absent, and a failed
\* tag read as no tags at all.
C4_TagElsePath ==
    Returned("get_metadata") =>
        \A key \in TagKeys :
            LET texts == TagTexts(call.opened, key) \ {""}
                inferred == infer_from_path(call.path, call.library_root)[key]
            IN /\ texts # {} => ret[key] \in {Some(t) : t \in texts}
               /\ texts = {} => ret[key] = inferred /\ ret[key] # Some("")

\* an empty title tag fell back to the path while the artist tag was used
C4_Witness ==
    /\ Returned("get_metadata")
    /\ TagTexts(call.opened, "title") = {""}
    /\ ret.title = Some("Song Name")
    /\ TagTexts(call.opened, "artist") = {"Tag One"}
    /\ ret.artist = Some("Tag One")

\* C5: for a file named "01 - Song Name.ext", "01.Song Name.ext" or
\* "01_Song Name.ext" anywhere under the library root, infer_from_path
\* returns the title "Song Name".
C5_TrackNumberStripped ==
    (/\ Returned("infer_from_path")
     /\ IsPrefix(call.library_root, call.path)
     /\ Stem(FileName(call.path)) \in {"01 - Song Name", "01.Song Name", "01_Song Name"})
    => ret.title = Some("Song Name")

\* C6: for "Artist Name - Song Title.ext" directly at the library root,
\* infer_from_path returns artist "Artist Name" and title "Song Title".
C6_ArtistFromFileName ==
    (/\ Returned("infer_from_path")
     /\ call.path = call.library_root \o <<"Artist Name - Song Title.mp3">>)
    => ret.artist = Some("Artist Name") /\ ret.title = Some("Song Title")

\* this step issues a lookup request
Requests == req' # req /\ req'.issued

KeepsOutputFiles == \A p \in LrcPaths : lrc[p] # None => lrc'[p] = lrc[p]

NoLookupForExisting == Requests => lrc[LrcPathOf[req'.entry]] = None

\* C7 as stated: with overwrite disabled, an existing output file is left
\* unchanged and no lookup is issued for its track, and a second run over
\* the unchanged library changes no output file.
C7_SecondRunChangesNothing ==
    [][~overwrite => /\ KeepsOutputFiles
                     /\ NoLookupForExisting
                     /\ (run >= 2 => lrc' = lrc)]_vars

\* C7, amended: with overwrite disabled, an existing output file is left
\* unchanged and no lookup is issued for its track, so a second run
\* changes no output file that exists when it starts (it may create the
\* files that are missing).
C7_ExistingOutputUntouched ==
    [][~overwrite => KeepsOutputFiles /\ NoLookupForExisting]_vars

\* a second run has finished, having reached tracks whose output existed
C7_Witness ==
    /\ ~overwrite
    /\ run = 2
    /\ pc = "done"
    /\ visited = Eligible
    /\ \E i \in Eligible : lrc[LrcPathOf[i]] # None
    /\ req.issued

C9_DelayBetweenRequests == [][Requests => ~unpaced]_vars

BothKnown == Truthy(call.artist) /\ Truthy(call.title)

\* C10: no lookup request is issued when title and artist are both absent;
\* the q of a request is "{artist} {title}" when both are known, otherwise
\* the one known field.
C10_QueryParameter ==
    Returned("fetch_lyrics_from_lrclib") =>
        /\ (~Truthy(call.artist) /\ ~Truthy(call.title)) => ~ret.request.issued
        /\ ret.request.issued =>
              ret.request.q = IF BothKnown THEN Value(call.artist) \o " " \o Value(call.title)
                              ELSE IF Truthy(call.title) THEN Value(call.title)
                              ELSE Value(call.artist)

\* a request was issued with both fields known
C10_Witness ==
    /\ Returned("fetch_lyrics_from_lrclib")
    /\ BothKnown
    /\ ret.request.issued
    /\ ret.request.q = "The Band Song Title"

====
